---- MODULE Spec2Model ----
(***************************************************************************)
(* State-machine model of the BinanceMarketData service                    *)
(* (src/client/src/services/BinanceMarketData.ts).                         *)
(*                                                                         *)
(* Strings are sequences of one-character strings, so that toUpperCase,    *)
(* parseFloat and the key construction are computed, not assumed.          *)
(* JavaScript numbers are records [nan, v]; v is a fixed-point value in    *)
(* units of 1/Scale, so that 0.485 and 7.85 are exact.                     *)
(***************************************************************************)
EXTENDS Integers, Sequences, FiniteSets, TLC

(* ------------------------------------------------------------------ *)
(* Bounds of the exploration                                          *)
(* ------------------------------------------------------------------ *)
MaxTimers == 2
MaxRounds == 2
MaxStreams == 1
MaxSharedStreams == 2

(* ------------------------------------------------------------------ *)
(* Numbers                                                            *)
(* ------------------------------------------------------------------ *)
Scale == 1000

Num(v) == [nan |-> FALSE, v |-> v]
NaN == [nan |-> TRUE, v |-> 0]
Whole(n) == Num(n * Scale)

\* JavaScript `x > 0`: false for NaN
GtZero(x) == ~x.nan /\ x.v > 0

\* JavaScript truthiness of a number: false for 0 and NaN
TruthyNum(x) == ~x.nan /\ x.v # 0

(* ------------------------------------------------------------------ *)
(* Strings                                                            *)
(* ------------------------------------------------------------------ *)
LowerLetters == <<"a","b","c","d","e","f","g","h","i","j","k","l","m",
                  "n","o","p","q","r","s","t","u","v","w","x","y","z">>
UpperLetters == <<"A","B","C","D","E","F","G","H","I","J","K","L","M",
                  "N","O","P","Q","R","S","T","U","V","W","X","Y","Z">>

UpperChar(c) ==
  IF \E i \in DOMAIN LowerLetters : LowerLetters[i] = c
  THEN UpperLetters[CHOOSE i \in DOMAIN LowerLetters : LowerLetters[i] = c]
  ELSE c

\* String.prototype.toUpperCase
ToUpperCase(s) == [i \in DOMAIN s |-> UpperChar(s[i])]

\* the JavaScript value `undefined` where a string is expected
Undefined == <<"undefined">>

DigitChars == <<"0","1","2","3","4","5","6","7","8","9">>
IsDigit(c) == \E i \in DOMAIN DigitChars : DigitChars[i] = c
DigitVal(c) == (CHOOSE i \in DOMAIN DigitChars : DigitChars[i] = c) - 1

RECURSIVE SkipSpaces(_, _)
SkipSpaces(s, i) ==
  IF i <= Len(s) /\ s[i] = " " THEN SkipSpaces(s, i + 1) ELSE i

RECURSIVE DigitsEnd(_, _)
DigitsEnd(s, i) ==
  IF i <= Len(s) /\ IsDigit(s[i]) THEN DigitsEnd(s, i + 1) ELSE i

\* value of the digits s[i..j-1]
RECURSIVE DigitsValue(_, _, _)
DigitsValue(s, i, j) ==
  IF j <= i THEN 0 ELSE DigitsValue(s, i, j - 1) * 10 + DigitVal(s[j - 1])

\* the fraction digits s[i..j-1] in units of 1/Scale (three places, the
\* rest is below the resolution of the fixed-point numbers)
FracValue(s, i, j) ==
  LET d(k) == IF i + k < j THEN DigitVal(s[i + k]) ELSE 0
  IN d(0) * 100 + d(1) * 10 + d(2)

\* Global parseFloat on a string or undefined: skips leading blanks, reads
\* an optional sign, digits and an optional fraction, ignores whatever
\* follows, and yields NaN when no digit was read.  (Exponents and
\* "Infinity" are not among the modelled replies.)
ParseFloat(s) ==
  IF s = Undefined THEN NaN
  ELSE
    LET a == SkipSpaces(s, 1)
        neg == a <= Len(s) /\ s[a] = "-"
        b == IF a <= Len(s) /\ (s[a] = "-" \/ s[a] = "+") THEN a + 1 ELSE a
        c == DigitsEnd(s, b)
        hasDot == c <= Len(s) /\ s[c] = "."
        d == IF hasDot THEN DigitsEnd(s, c + 1) ELSE c
        nInt == c - b
        nFrac == IF hasDot THEN d - (c + 1) ELSE 0
        mag == DigitsValue(s, b, c) * Scale
               + (IF hasDot THEN FracValue(s, c + 1, d) ELSE 0)
    IN IF nInt + nFrac = 0 THEN NaN
       ELSE Num(IF neg THEN 0 - mag ELSE mag)

(* ------------------------------------------------------------------ *)
(* Symbols and keys                                                   *)
(* ------------------------------------------------------------------ *)
BTCUSDT == <<"B","T","C","U","S","D","T">>
ETHUSDT == <<"E","T","H","U","S","D","T">>
ADAUSDT == <<"A","D","A","U","S","D","T">>
DOTUSDT == <<"D","O","T","U","S","D","T">>
btcusdt == <<"b","t","c","u","s","d","t">>
XrpUsdt == <<"X","r","p","U","s","d","t">>

\* the symbol strings callers pass
Symbols == {BTCUSDT, btcusdt, XrpUsdt}

\* the symbol strings callers pass to subscribeToCandles
CandleSymbols == {btcusdt}

\* the symbol strings callers pass to getTicker and getOrderBook, and to
\* subscribeToTicker where the accessors are explored
CallSymbols == {btcusdt}

\* the candle intervals callers pass
Intervals == {<<"1","m">>}

\* the inputs of getHistoricalData: symbols, timeframes (two recognized,
\* one unrecognized, one that names an inherited property), counts
UNKNOWNSYM == <<"U","N","K","N","O","W","N","S","Y","M">>
HistorySymbols == {UNKNOWNSYM, BTCUSDT}
Timeframes ==
  { <<"1","h">>, <<"5","m">>, <<"2","w">>, <<"t","o","S","t","r","i","n","g">> }
Limits == {0, 1, 3, 50}

\* the inputs of calculatePnL: sides and positions <<entryPrice, quantity>>
Sides == {"LONG", "SHORT"}
Positions == { <<Whole(100), Whole(2)>>, <<Whole(50), Num(500)>> }
ReadSymbols == {btcusdt, XrpUsdt}

\* the values of Date.now() the generator is run at, in milliseconds: one
\* inside an hour, one on an hour boundary
Nows == {37234567, 259200000}

(* ------------------------------------------------------------------ *)
(* State                                                              *)
(* ------------------------------------------------------------------ *)
VARIABLES
  isInitialized,   \* the mode flag: TRUE is LIVE
  probe,           \* position of initializeConnection: "pending" or "done"
  tickerSubjects,  \* Map key -> BehaviorSubject (an index into subjects)
  candleSubjects,  \* Map key -> BehaviorSubject (an index into subjects)
  subjects,        \* every BehaviorSubject ever constructed, by identity
  timers,          \* every setInterval registration that is still active
  streams,         \* the observers attached to subjects and what they received
  now,             \* Date.now()
  ret,             \* the accessor call in progress (suspended at an await) or
                   \* the one that returned last: inputs and outcome
  hist             \* history: facts about the past that the claims speak of

vars == <<isInitialized, probe, tickerSubjects, candleSubjects, subjects,
          timers, streams, now, ret, hist>>

(* ------------------------------------------------------------------ *)
(* Remote replies                                                     *)
(* ------------------------------------------------------------------ *)
\* A reply of the remote service to one fetch:
\*   net   the fetch promise resolved (FALSE: network error, it rejects)
\*   ok    response.ok, a 2xx status
\*   json  the body parses as JSON (FALSE: response.json() rejects)
\*   body  the parsed JSON value
JNull == [t |-> "null"]
JObject(o) == [t |-> "object", o |-> o]
JArray(a) == [t |-> "array", a |-> a]
EmptyObject == JObject([x \in {} |-> 0])

Reply(ok, body) == [net |-> TRUE, ok |-> ok, json |-> TRUE, body |-> body]
NetworkError == [net |-> FALSE, ok |-> FALSE, json |-> FALSE, body |-> JNull]
NotJson(ok) == [net |-> TRUE, ok |-> ok, json |-> FALSE, body |-> JNull]

ErrorEnvelope == JObject([code |-> 0 - 1121, msg |-> <<"b","a","d">>])

\* replies that carry no usable payload, whatever the endpoint
FailureReplies ==
  { NetworkError,                 \* transport failure
    NotJson(FALSE),               \* 5xx with an HTML body
    Reply(FALSE, ErrorEnvelope),  \* 4xx with the exchange's error envelope
    Reply(TRUE, ErrorEnvelope),   \* success status, embedded error code
    Reply(FALSE, EmptyObject),    \* non-success status, JSON body, no code
    Reply(TRUE, EmptyObject),     \* malformed: JSON without the fields
    Reply(TRUE, JNull) }          \* malformed: JSON null

PingReplies == { NetworkError, Reply(FALSE, EmptyObject), Reply(TRUE, EmptyObject) }

PriceBody(p) == JObject([symbol |-> BTCUSDT, price |-> p])
PriceReplies ==
  FailureReplies \cup
  { Reply(TRUE, PriceBody(<<"4","3","0","0","0",".","5","0">>)),
    Reply(TRUE, PriceBody(<<"0",".","0","0">>)) }

Ticker24Body(p) ==
  JObject([symbol |-> BTCUSDT, lastPrice |-> p,
           priceChange |-> <<"-","1","2",".","5">>,
           priceChangePercent |-> <<"-","0",".","0","3">>,
           volume |-> <<"9","0","0">>])
TickerReplies ==
  FailureReplies \cup
  { Reply(TRUE, Ticker24Body(<<"4","3","0","0","0",".","5","0">>)),
    Reply(TRUE, Ticker24Body(<<"4","3","1","0","0">>)),
    Reply(FALSE, Ticker24Body(<<"4","3","1","0","0">>)) }

\* the replies the refresh rounds of a ticker timer receive
RoundTickerReplies ==
  { NetworkError, Reply(TRUE, ErrorEnvelope), Reply(TRUE, EmptyObject),
    Reply(TRUE, Ticker24Body(<<"4","3","0","0","0",".","5","0">>)),
    Reply(TRUE, Ticker24Body(<<"4","3","1","0","0">>)) }

Kline1 == <<60000, <<"1","0">>, <<"1","2">>, <<"9">>, <<"1","1">>, <<"5">>>>
KlineReplies ==
  FailureReplies \cup
  { Reply(TRUE, JArray(<<>>)), Reply(TRUE, JArray(<<Kline1>>)) }

\* the replies the price request of calculatePnL and of getCurrentPrice
\* receives where both are explored together
ReadPriceReplies ==
  { NetworkError, Reply(TRUE, EmptyObject),
    Reply(TRUE, PriceBody(<<"1","1","0">>)),
    Reply(TRUE, PriceBody(<<"9","0",".","0","0">>)) }

\* the replies getHistoricalData's request receives
HistoryReplies ==
  KlineReplies \cup { Reply(FALSE, JArray(<<Kline1>>)) }

\* the replies the refresh rounds receive where the accessors are explored
CallRoundReplies ==
  { NetworkError, Reply(TRUE, EmptyObject),
    Reply(TRUE, Ticker24Body(<<"4","3","0","0","0",".","5","0">>)) }

\* the replies the refresh rounds of a candle timer receive
RoundKlineReplies ==
  { NetworkError, Reply(TRUE, EmptyObject), Reply(TRUE, JArray(<<Kline1>>)) }

DepthBody ==
  JObject([bids |-> << <<<<"9","9">>, <<"2">>>> >>,
           asks |-> << <<<<"1","0","1">>, <<"1",".","5">>>> >>])
DepthReplies ==
  FailureReplies \cup { Reply(TRUE, DepthBody), Reply(FALSE, DepthBody) }

InfoBody ==
  JObject([symbols |-> << [symbol |-> BTCUSDT, status |-> "TRADING"],
                          [symbol |-> DOTUSDT, status |-> "BREAK"] >>])
InfoReplies ==
  FailureReplies \cup { Reply(TRUE, InfoBody), Reply(FALSE, InfoBody) }

(* ------------------------------------------------------------------ *)
(* Outcomes of a call                                                 *)
(* ------------------------------------------------------------------ *)
Raise(e) == [raised |-> TRUE, error |-> e]
Return(v) == [raised |-> FALSE, value |-> v]

\* `await fetch(url)` then `await response.json()`; response.ok is not read
FetchJson(reply) ==
  IF ~reply.net THEN Raise("FetchError")
  ELSE IF ~reply.json THEN Raise("SyntaxError")
  ELSE Return(reply.body)

\* the named properties of a parsed JSON value
Fields(data) == IF data.t = "object" THEN data.o ELSE [x \in {} |-> 0]
HasField(data, f) == f \in DOMAIN Fields(data)
Field(data, f) == IF HasField(data, f) THEN Fields(data)[f] ELSE Undefined

\* `if (data.code) throw ...`: reading a property of null raises a TypeError
CheckCode(data) ==
  IF data.t = "null" THEN Raise("TypeError")
  ELSE IF HasField(data, "code") /\ Fields(data)["code"] # 0
       THEN Raise("BinanceAPIError")
       ELSE Return(data)

(* ------------------------------------------------------------------ *)
(* Program constants                                                  *)
(* ------------------------------------------------------------------ *)
updateInterval == 2000
DefaultPrice == 100
SeedVolume == 125000
CandleLimit == 100

\* fallbackPrices of getCurrentPrice
FallbackPrices ==
  (BTCUSDT :> Whole(42500)) @@ (ETHUSDT :> Whole(2650)) @@
  (ADAUSDT :> Num(485)) @@ (DOTUSDT :> Num(7850))

\* `fallbackPrices[key] || 100`
FallbackPrice(key) ==
  IF key \in DOMAIN FallbackPrices /\ TruthyNum(FallbackPrices[key])
  THEN FallbackPrices[key]
  ELSE Whole(DefaultPrice)

\* fallbackData of initializeFallbackData
FallbackData ==
  << [symbol |-> BTCUSDT, price |-> Whole(42500), change |-> Whole(1250),
      changePercent |-> Num(3020)],
     [symbol |-> ETHUSDT, price |-> Whole(2650), change |-> Whole(0 - 45),
      changePercent |-> Num(0 - 1670)],
     [symbol |-> ADAUSDT, price |-> Num(485), change |-> Num(12),
      changePercent |-> Num(2540)] >>

(* ------------------------------------------------------------------ *)
(* Request/response accessors                                         *)
(* ------------------------------------------------------------------ *)
\* getTicker: the TickerData built from the reply, or the error rethrown
GetTicker(symbol, reply) ==
  LET f == FetchJson(reply) IN
  IF f.raised THEN f
  ELSE LET c == CheckCode(f.value) IN
       IF c.raised THEN c
       ELSE Return([symbol |-> Field(c.value, "symbol"),
                    price |-> ParseFloat(Field(c.value, "lastPrice")),
                    change |-> ParseFloat(Field(c.value, "priceChange")),
                    changePercent |-> ParseFloat(Field(c.value, "priceChangePercent")),
                    volume |-> ParseFloat(Field(c.value, "volume")),
                    timestamp |-> now])

\* kline[i] of a kline array (0-based); undefined past its end
KlineAt(kline, i) == IF i + 1 \in DOMAIN kline THEN kline[i + 1] ELSE Undefined

KlineToCandle(kline) ==
  [timestamp |-> kline[1],
   open |-> ParseFloat(KlineAt(kline, 1)),
   high |-> ParseFloat(KlineAt(kline, 2)),
   low |-> ParseFloat(KlineAt(kline, 3)),
   close |-> ParseFloat(KlineAt(kline, 4)),
   volume |-> ParseFloat(KlineAt(kline, 5))]

\* getKlines: data.map raises a TypeError when data is not an array
GetKlines(symbol, interval, limit, reply) ==
  LET f == FetchJson(reply) IN
  IF f.raised THEN f
  ELSE LET c == CheckCode(f.value) IN
       IF c.raised THEN c
       ELSE IF c.value.t # "array" THEN Raise("TypeError")
       ELSE Return([i \in DOMAIN c.value.a |-> KlineToCandle(c.value.a[i])])

DepthLevel(pair) == <<ParseFloat(pair[1]), ParseFloat(pair[2])>>
DepthLevels(side) == [i \in DOMAIN side |-> DepthLevel(side[i])]

\* getOrderBook: data.bids.map raises a TypeError when bids is missing
GetOrderBook(symbol, limit, reply) ==
  LET f == FetchJson(reply) IN
  IF f.raised THEN f
  ELSE LET c == CheckCode(f.value) IN
       IF c.raised THEN c
       ELSE IF ~HasField(c.value, "bids") \/ ~HasField(c.value, "asks")
            THEN Raise("TypeError")
       ELSE Return([symbol |-> ToUpperCase(symbol),
                    bids |-> DepthLevels(Field(c.value, "bids")),
                    asks |-> DepthLevels(Field(c.value, "asks")),
                    timestamp |-> now])

IsTrading(entry) == entry.status = "TRADING"

\* getSymbols: data.symbols.filter raises a TypeError when symbols is missing
GetSymbols(reply) ==
  LET f == FetchJson(reply) IN
  IF f.raised THEN f
  ELSE LET c == CheckCode(f.value) IN
       IF c.raised THEN c
       ELSE IF ~HasField(c.value, "symbols") THEN Raise("TypeError")
       ELSE LET trading == SelectSeq(Field(c.value, "symbols"), IsTrading)
            IN Return([i \in DOMAIN trading |-> trading[i].symbol])

\* the cached ticker of getCurrentPrice is usable: present and price > 0
CachedPriceHit(key) ==
  /\ key \in DOMAIN tickerSubjects
  /\ GtZero(subjects[tickerSubjects[key]].value.price)

\* getCurrentPrice issues a remote request in this state
GetCurrentPriceFetches(symbol) ==
  ~CachedPriceHit(ToUpperCase(symbol)) /\ isInitialized

\* getCurrentPrice up to its request: the cached price, or the fallback
\* table when not initialized (the cases in which no request is issued)
GetCurrentPriceLocal(symbol) ==
  LET key == ToUpperCase(symbol) IN
  IF CachedPriceHit(key)
  THEN Return(subjects[tickerSubjects[key]].value.price)
  ELSE Return(FallbackPrice(key))

\* getCurrentPrice from the reply of its request on: the remote price, or
\* the fallback table on any raise
GetCurrentPriceRemote(symbol, reply) ==
  LET key == ToUpperCase(symbol)
      f == FetchJson(reply)
  IN IF f.raised THEN Return(FallbackPrice(key))
     ELSE LET c == CheckCode(f.value) IN
          IF c.raised THEN Return(FallbackPrice(key))
          ELSE Return(ParseFloat(Field(c.value, "price")))

(* ------------------------------------------------------------------ *)
(* Arithmetic on numbers                                              *)
(* ------------------------------------------------------------------ *)
\* The products and quotients are the real ones rounded down to 1/Scale;
\* they are computed in two parts so that no intermediate value leaves
\* the range of the integers.  An operand that is NaN yields NaN.
Add(x, y) == IF x.nan \/ y.nan THEN NaN ELSE Num(x.v + y.v)
Sub(x, y) == IF x.nan \/ y.nan THEN NaN ELSE Num(x.v - y.v)
Mul(x, y) ==
  IF x.nan \/ y.nan THEN NaN
  ELSE Num((x.v \div Scale) * y.v + ((x.v % Scale) * y.v) \div Scale)
\* x / y for y # 0
Div(x, y) ==
  IF x.nan \/ y.nan THEN NaN
  ELSE LET a == IF y.v < 0 THEN 0 - x.v ELSE x.v
           b == IF y.v < 0 THEN 0 - y.v ELSE y.v
       IN Num((a \div b) * Scale + ((a % b) * Scale) \div b)
\* Math.max and Math.min of two numbers
MathMax(x, y) == IF x.nan \/ y.nan THEN NaN ELSE IF x.v >= y.v THEN x ELSE y
MathMin(x, y) == IF x.nan \/ y.nan THEN NaN ELSE IF x.v <= y.v THEN x ELSE y
\* JavaScript `x > y`: false when an operand is NaN
Gt(x, y) == ~x.nan /\ ~y.nan /\ x.v > y.v

(* ------------------------------------------------------------------ *)
(* Timeframes                                                         *)
(* ------------------------------------------------------------------ *)
\* a value that is not a number: a function or object inherited from
\* Object.prototype
JsObject == [t |-> "object"]
IsNumber(x) == "nan" \in DOMAIN x
\* the conversion of a value to a number in arithmetic
ToNumber(x) == IF IsNumber(x) THEN x ELSE NaN

\* the property names every object literal inherits from Object.prototype
\* (the ones the callers of the model pass)
ObjectPrototypeKeys ==
  { <<"t","o","S","t","r","i","n","g">>,
    <<"c","o","n","s","t","r","u","c","t","o","r">> }

HourMs == 3600000

\* timeframeMap of getTimeframeInMs, in milliseconds
TimeframeMap ==
  (<<"1","m">> :> 60000) @@ (<<"5","m">> :> 300000) @@
  (<<"1","5","m">> :> 900000) @@ (<<"3","0","m">> :> 1800000) @@
  (<<"1","h">> :> HourMs) @@ (<<"4","h">> :> 4 * HourMs) @@
  (<<"1","d">> :> 24 * HourMs)

\* `timeframeMap[timeframe] || 60 * 60 * 1000`: the lookup finds the own
\* properties and the inherited ones, and an inherited one is truthy
GetTimeframeInMs(timeframe) ==
  IF timeframe \in DOMAIN TimeframeMap THEN Num(TimeframeMap[timeframe])
  ELSE IF timeframe \in ObjectPrototypeKeys THEN JsObject
  ELSE Num(HourMs)

\* `intervalMap[timeframe] || '1h'` of convertTimeframeToBinanceInterval
ConvertTimeframeToBinanceInterval(timeframe) ==
  IF timeframe \in DOMAIN TimeframeMap THEN timeframe
  ELSE IF timeframe \in ObjectPrototypeKeys THEN JsObject
  ELSE <<"1","h">>

(* ------------------------------------------------------------------ *)
(* Synthetic data generator                                           *)
(* ------------------------------------------------------------------ *)
\* startingPrices of generateFallbackHistoricalData
SOLUSDT == <<"S","O","L","U","S","D","T">>
StartingPrices ==
  (BTCUSDT :> Whole(42500)) @@ (ETHUSDT :> Whole(2650)) @@
  (ADAUSDT :> Num(485)) @@ (SOLUSDT :> Num(85500)) @@ (DOTUSDT :> Num(7850))

\* `startingPrices[symbol.toUpperCase()] || 100`
StartingPrice(symbol) ==
  LET key == ToUpperCase(symbol) IN
  IF key \in DOMAIN StartingPrices /\ TruthyNum(StartingPrices[key])
  THEN StartingPrices[key]
  ELSE Whole(DefaultPrice)

\* symbol.includes('BTC'): the symbol as passed, not its upper case
IncludesBTC(symbol) ==
  \E i \in 1..(Len(symbol) - 2) :
    symbol[i] = "B" /\ symbol[i + 1] = "T" /\ symbol[i + 2] = "C"

\* `symbol.includes('BTC') ? 0.008 : 0.012`
Volatility(symbol) == IF IncludesBTC(symbol) THEN Num(8) ELSE Num(12)

\* `hourOfDay >= 9 && hourOfDay <= 16 ? 1.5 : 1`, the local zone being UTC;
\* the hour of an invalid date is NaN and both comparisons are false
VolatilityMultiplier(timestamp) ==
  IF timestamp.nan THEN Whole(1)
  ELSE LET hourOfDay == (timestamp.v \div HourMs) % 24 IN
       IF hourOfDay >= 9 /\ hourOfDay <= 16 THEN Num(1500) ELSE Whole(1)

\* the k-th value Math.random() returns (k from 0), the values rand being
\* handed out in turn
Random(rand, k) == rand[(k % Len(rand)) + 1]

\* one iteration of the loop: the candle for step i, from currentPrice
GenerateCandle(symbol, timeframeMs, i, currentPrice, rand, k) ==
  LET timestamp == Sub(Num(now), IF ToNumber(timeframeMs).nan THEN NaN
                                 ELSE Num(i * ToNumber(timeframeMs).v))
      volatility == Volatility(symbol)
      volatilityMultiplier == VolatilityMultiplier(timestamp)
      change == Mul(Mul(Mul(currentPrice, Sub(Random(rand, k), Num(500))),
                        volatility), volatilityMultiplier)
      open == currentPrice
      close == MathMax(Mul(currentPrice, Num(100)), Add(currentPrice, change))
      \* direction is 1 or -1, so Math.abs(direction) is 1
      highExtra == Mul(Mul(currentPrice, Random(rand, k + 1)), Num(5))
      lowExtra == Mul(Mul(currentPrice, Random(rand, k + 2)), Num(5))
  IN [timestamp |-> timestamp,
      open |-> open,
      high |-> Add(MathMax(open, close), highExtra),
      low |-> Sub(MathMin(open, close), lowExtra),
      close |-> close,
      volume |-> Add(Whole(50), Mul(Whole(200), Random(rand, k + 3)))]

\* the loop `for (let i = limit - 1; i >= 0; i--)` from step i on
RECURSIVE GenerateFrom(_, _, _, _, _, _, _)
GenerateFrom(symbol, timeframeMs, i, currentPrice, rand, k, data) ==
  IF i < 0 THEN data
  ELSE LET candle == GenerateCandle(symbol, timeframeMs, i, currentPrice, rand, k)
       IN GenerateFrom(symbol, timeframeMs, i - 1, candle.close, rand, k + 4,
                       Append(data, candle))

\* generateFallbackHistoricalData; rand are the values of Math.random()
GenerateFallbackHistoricalData(symbol, timeframe, limit, rand) ==
  GenerateFrom(symbol, GetTimeframeInMs(timeframe), limit - 1,
               StartingPrice(symbol), rand, 0, <<>>)

\* a mutation of GetHistoricalDataFetches: the mode flag is not read
GetHistoricalDataFetchesAlways == TRUE

\* getHistoricalData issues a remote request in this state: `isInitialized`
GetHistoricalDataFetches == isInitialized

\* getHistoricalData when not initialized: the generator, no request
GetHistoricalDataLocal(symbol, timeframe, limit, rand) ==
  [raised |-> FALSE, generated |-> TRUE,
   value |-> GenerateFallbackHistoricalData(symbol, timeframe, limit, rand)]

\* getHistoricalData from the reply of the klines request on: the klines,
\* and the generator when getKlines raises or returns no candle
GetHistoricalDataRemote(symbol, timeframe, limit, reply, rand) ==
  LET candles == GetKlines(symbol, ConvertTimeframeToBinanceInterval(timeframe),
                           limit, reply)
  IN IF candles.raised \/ Len(candles.value) = 0
     THEN [raised |-> FALSE, generated |-> TRUE,
           value |-> GenerateFallbackHistoricalData(symbol, timeframe, limit, rand)]
     ELSE [raised |-> FALSE, generated |-> FALSE, value |-> candles.value]

(* ------------------------------------------------------------------ *)
(* Profit and loss                                                    *)
(* ------------------------------------------------------------------ *)
\* a mutation of PnL: the side is not read
PnLIgnoresSide(side, currentPrice, entryPrice, quantity) ==
  Mul(Sub(currentPrice, entryPrice), quantity)

\* `(currentPrice - entryPrice) * quantity` for LONG, else
\* `(entryPrice - currentPrice) * quantity`
PnL(side, currentPrice, entryPrice, quantity) ==
  IF side = "LONG"
  THEN Mul(Sub(currentPrice, entryPrice), quantity)
  ELSE Mul(Sub(entryPrice, currentPrice), quantity)

\* `(pnl / (entryPrice * quantity)) * 100`, for entryPrice * quantity # 0
PnLPercent(pnl, entryPrice, quantity) ==
  Mul(Div(pnl, Mul(entryPrice, quantity)), Whole(100))

\* calculatePnL from the outcome of its `await this.getCurrentPrice(symbol)`
\* on: an error of getCurrentPrice is rethrown
CalculatePnL(price, side, entryPrice, quantity) ==
  IF price.raised THEN price
  ELSE LET pnl == PnL(side, price.value, entryPrice, quantity) IN
       Return([pnl |-> pnl,
               pnlPercent |-> PnLPercent(pnl, entryPrice, quantity),
               currentPrice |-> price.value])

(* ------------------------------------------------------------------ *)
(* Subjects, maps and streams                                         *)
(* ------------------------------------------------------------------ *)
EmptyMap == [x \in {} |-> 0]

\* a BehaviorSubject: its current value.  The other fields are history:
\* pubs counts the next() calls, origin tells which code constructed it,
\* handed that a subscribe call returned an Observable of it, and
\* firstEver that this was the first subscribe call ever made for its key
NewSubject(kind, key, value, origin, handed, firstEver) ==
  [kind |-> kind, key |-> key, value |-> value, pubs |-> 0,
   origin |-> origin, handed |-> handed, firstEver |-> firstEver]

\* a mutation of Placeholder: the placeholder carries the fallback price
PlaceholderWithFallbackPrice(key) ==
  [symbol |-> key, price |-> FallbackPrice(key), change |-> Num(0),
   changePercent |-> Num(0), volume |-> Num(0), timestamp |-> now]

\* the initial TickerData of subscribeToTicker
Placeholder(key) ==
  [symbol |-> key, price |-> Num(0), change |-> Num(0),
   changePercent |-> Num(0), volume |-> Num(0), timestamp |-> now]

\* the key of subscribeToCandles: `${symbol.toUpperCase()}_${interval}`
CandleKey(symbol, interval) == ToUpperCase(symbol) \o <<"_">> \o interval

\* subject.next(value) as seen by the subjects
NextSubjects(sid, value) ==
  [subjects EXCEPT ![sid].value = value, ![sid].pubs = @ + 1]

\* a mutation of NextStreams: next() reaches no observer
NextStreamsSilent(sid, value) == streams

\* subject.next(value) as seen by the attached observers
NextStreams(sid, value) ==
  [i \in DOMAIN streams |->
     IF streams[i].subject = sid
     THEN [streams[i] EXCEPT !.received = Append(@, value)]
     ELSE streams[i]]

(* ------------------------------------------------------------------ *)
(* History                                                            *)
(* ------------------------------------------------------------------ *)
\* hist records, for the properties only:
\*   everSubscribed  the ticker keys subscribeToTicker was called for
\*   published       the ticker keys a refresh round published a value for
\*   rounds          the number of refresh rounds started
\*   modes           the values of the mode flag the accessor calls read
\*   probeFailed     the startup probe met a transport failure or a
\*                   non-success status
\*   afterCleanup    the operation executed last was cleanup()
NoCall == [type |-> "none"]
Step(h) == [h EXCEPT !.afterCleanup = FALSE]

\* ret after a step of another operation: an accessor call that is
\* suspended at an await stays suspended; the record of a call that has
\* returned is dropped
AfterStep(r) == IF r.type = "awaiting" THEN r ELSE NoCall

(* ------------------------------------------------------------------ *)
(* Startup probe                                                      *)
(* ------------------------------------------------------------------ *)
\* a mutation of ProbeLive: the status of the ping response is not read
ProbeLiveIgnoresStatus(reply) == reply.net

\* initializeConnection takes the LIVE branch
ProbeLive(reply) == reply.net /\ reply.ok

SeedTicker(d) ==
  [symbol |-> d.symbol, price |-> d.price, change |-> d.change,
   changePercent |-> d.changePercent, volume |-> Whole(SeedVolume),
   timestamp |-> now]

\* a mutation of InitializeFallbackData: a seed is registered for every
\* entry, whether the map holds the key or not
RECURSIVE InitializeFallbackDataOverwrites(_, _, _)
InitializeFallbackDataOverwrites(i, ts, subs) ==
  IF i > Len(FallbackData) THEN [ts |-> ts, subs |-> subs]
  ELSE LET d == FallbackData[i] IN
       InitializeFallbackDataOverwrites(
         i + 1,
         (d.symbol :> (Len(subs) + 1)) @@ ts,
         Append(subs, NewSubject("ticker", d.symbol, SeedTicker(d), "seed",
                                 FALSE, FALSE)))

\* initializeFallbackData from entry i on: a seed is registered only for
\* a key the map does not hold
RECURSIVE InitializeFallbackData(_, _, _)
InitializeFallbackData(i, ts, subs) ==
  IF i > Len(FallbackData) THEN [ts |-> ts, subs |-> subs]
  ELSE LET d == FallbackData[i] IN
       IF d.symbol \in DOMAIN ts
       THEN InitializeFallbackData(i + 1, ts, subs)
       ELSE InitializeFallbackData(
              i + 1,
              (d.symbol :> (Len(subs) + 1)) @@ ts,
              Append(subs, NewSubject("ticker", d.symbol, SeedTicker(d), "seed",
                                      FALSE, FALSE)))

\* the ping of initializeConnection resolves
InitializeConnection(reply) ==
  /\ probe = "pending"
  /\ probe' = "done"
  /\ IF ProbeLive(reply)
     THEN /\ isInitialized' = TRUE
          /\ UNCHANGED <<tickerSubjects, subjects>>
     ELSE LET seeded == InitializeFallbackData(1, tickerSubjects, subjects) IN
          /\ isInitialized' = isInitialized
          /\ tickerSubjects' = seeded.ts
          /\ subjects' = seeded.subs
  /\ ret' = AfterStep(ret)
  /\ hist' = [Step(hist) EXCEPT !.probeFailed = ~reply.net \/ ~reply.ok]
  /\ UNCHANGED <<candleSubjects, timers, streams, now>>

(* ------------------------------------------------------------------ *)
(* Subscription manager                                               *)
(* ------------------------------------------------------------------ *)
\* a setInterval registration; inflight counts the callbacks of it that
\* are suspended at their await, failedAt is the number of values its
\* subject had been sent when a round of it last raised (-1: none raised)
NewTimer(kind, key, symbol, interval, sid, period) ==
  [kind |-> kind, key |-> key, symbol |-> symbol, interval |-> interval,
   subject |-> sid, period |-> period, inflight |-> 0, failedAt |-> 0 - 1]

SubscribeToTicker(symbol) ==
  LET key == ToUpperCase(symbol)
      create == key \notin DOMAIN tickerSubjects
      sid == IF create THEN Len(subjects) + 1 ELSE tickerSubjects[key]
      first == key \notin hist.everSubscribed
  IN
  /\ create => Len(timers) < MaxTimers
  /\ IF create
     THEN /\ subjects' = Append(subjects,
                NewSubject("ticker", key, Placeholder(key), "subscribe",
                           TRUE, first))
          /\ tickerSubjects' = (key :> sid) @@ tickerSubjects
          /\ timers' = Append(timers,
                NewTimer("ticker", key, symbol, <<>>, sid, updateInterval))
     ELSE /\ subjects' = [subjects EXCEPT ![sid].handed = TRUE,
                                          ![sid].firstEver = @ \/ first]
          /\ UNCHANGED <<tickerSubjects, timers>>
  /\ ret' = AfterStep(ret)
  /\ hist' = [Step(hist) EXCEPT !.everSubscribed = @ \cup {key}]
  /\ UNCHANGED <<isInitialized, probe, candleSubjects, streams, now>>

SubscribeToCandles(symbol, interval) ==
  LET key == CandleKey(symbol, interval)
      create == key \notin DOMAIN candleSubjects
      sid == IF create THEN Len(subjects) + 1 ELSE candleSubjects[key]
  IN
  /\ create => Len(timers) < MaxTimers
  /\ IF create
     THEN /\ subjects' = Append(subjects,
                NewSubject("candle", key, <<>>, "subscribe", TRUE, FALSE))
          /\ candleSubjects' = (key :> sid) @@ candleSubjects
          /\ timers' = Append(timers,
                NewTimer("candle", key, symbol, interval, sid, updateInterval * 5))
     ELSE UNCHANGED <<subjects, candleSubjects, timers>>
  /\ ret' = AfterStep(ret)
  /\ hist' = Step(hist)
  /\ UNCHANGED <<isInitialized, probe, tickerSubjects, streams, now>>

\* a caller subscribes an observer to an Observable it was handed: the
\* BehaviorSubject replays its current value
AttachWithin(sid, max) ==
  /\ Len(streams) < max
  /\ subjects[sid].handed
  /\ streams' = Append(streams,
       [subject |-> sid, pubsAtAttach |-> subjects[sid].pubs,
        received |-> <<subjects[sid].value>>])
  /\ ret' = AfterStep(ret)
  /\ hist' = Step(hist)
  /\ UNCHANGED <<isInitialized, probe, tickerSubjects, candleSubjects,
                 subjects, timers, now>>

Attach(sid) == AttachWithin(sid, MaxStreams)

\* the setInterval callback of timer t starts: it issues its request and
\* suspends at the await; nothing keeps the next firing from starting
\* while this one is suspended
TimerFire(t) ==
  /\ hist.rounds < MaxRounds
  /\ timers' = [timers EXCEPT ![t].inflight = @ + 1]
  /\ ret' = AfterStep(ret)
  /\ hist' = [Step(hist) EXCEPT !.rounds = @ + 1]
  /\ UNCHANGED <<isInitialized, probe, tickerSubjects, candleSubjects,
                 subjects, streams, now>>

\* a mutation of RoundCatch: the failed round publishes a zeroed value
RoundCatchPublishes(t) ==
  LET sid == timers[t].subject
      zero == IF timers[t].kind = "ticker" THEN Placeholder(timers[t].key)
              ELSE <<>>
  IN
  /\ subjects' = NextSubjects(sid, zero)
  /\ streams' = NextStreams(sid, zero)
  /\ timers' = [timers EXCEPT ![t].inflight = @ - 1, ![t].failedAt = subjects[timers[t].subject].pubs]

\* the catch block of the timer callback: the error is logged, nothing else
RoundCatch(t) ==
  /\ UNCHANGED <<subjects, streams>>
  /\ timers' = [timers EXCEPT ![t].inflight = @ - 1, ![t].failedAt = subjects[timers[t].subject].pubs]

\* a mutation of RoundNext: the round looks the subject up in the map by
\* its key when it publishes, instead of using the one it was created with
RoundNextByKey(t, value) ==
  LET map == IF timers[t].kind = "ticker" THEN tickerSubjects ELSE candleSubjects
      sid == IF timers[t].key \in DOMAIN map THEN map[timers[t].key]
             ELSE timers[t].subject
  IN
  /\ subjects' = NextSubjects(sid, value)
  /\ streams' = NextStreams(sid, value)
  /\ timers' = [timers EXCEPT ![t].inflight = @ - 1]

\* subject.next(value) at the end of a successful round
RoundNext(t, value) ==
  /\ subjects' = NextSubjects(timers[t].subject, value)
  /\ streams' = NextStreams(timers[t].subject, value)
  /\ timers' = [timers EXCEPT ![t].inflight = @ - 1]

\* what the accessor called by timer t makes of the reply
RoundFetch(t, reply) ==
  IF timers[t].kind = "ticker"
  THEN GetTicker(timers[t].symbol, reply)
  ELSE GetKlines(timers[t].symbol, timers[t].interval, CandleLimit, reply)

\* the replies a round of timer t can receive
RoundReplies(t) ==
  IF timers[t].kind = "ticker" THEN RoundTickerReplies ELSE RoundKlineReplies

\* the request of a suspended round of timer t is answered
RoundComplete(t, reply) ==
  LET r == RoundFetch(t, reply) IN
  /\ timers[t].inflight > 0
  /\ reply \in RoundReplies(t)
  /\ IF r.raised THEN RoundCatch(t) ELSE RoundNext(t, r.value)
  /\ ret' = AfterStep(ret)
  /\ hist' = [Step(hist) EXCEPT !.published =
                IF ~r.raised /\ timers[t].kind = "ticker"
                THEN @ \cup {timers[t].key} ELSE @]
  /\ UNCHANGED <<isInitialized, probe, tickerSubjects, candleSubjects, now>>

\* a mutation of ClearTickerSubjects: the ticker map is left as it is
ClearTickerSubjectsKeeps(ts) == ts

\* this.tickerSubjects.clear()
ClearTickerSubjects(ts) == EmptyMap

\* cleanup: both maps are cleared; no interval is cleared
Cleanup ==
  /\ tickerSubjects' = ClearTickerSubjects(tickerSubjects)
  /\ candleSubjects' = EmptyMap
  /\ ret' = AfterStep(ret)
  /\ hist' = [hist EXCEPT !.afterCleanup = TRUE]
  /\ UNCHANGED <<isInitialized, probe, subjects, timers, streams, now>>

(* ------------------------------------------------------------------ *)
(* Accessor calls                                                     *)
(* ------------------------------------------------------------------ *)
\* An accessor call takes several steps, as the async function does: the
\* call runs up to its first await, where it has sent its request and
\* returns to the event loop; `await fetch` settles; `await
\* response.json()` settles and the function runs to its return.  Other
\* operations run in between.  A call that needs no request returns in the
\* step of the call.  ret holds one call: while it is suspended, its name,
\* arguments and position; once it has returned, its inputs and outcome.
\* A call starts when ret holds none.
Awaiting(call, args) ==
  [type |-> "awaiting", call |-> call, stage |-> "fetch", args |-> args]

IsAwaiting(call) == ret.type = "awaiting" /\ ret.call = call

\* the reply settles the await the call is suspended at: a transport
\* failure rejects `await fetch`; a response resolves it, and its body
\* settles `await response.json()`
Settles(reply) ==
  \/ (ret.stage = "fetch" /\ ~reply.net)
  \/ (ret.stage = "json" /\ reply.net)

\* `await fetch(...)` of the suspended call resolves with a response
FetchResolves ==
  /\ ret.type = "awaiting"
  /\ ret.stage = "fetch"
  /\ ret' = [ret EXCEPT !.stage = "json"]
  /\ hist' = Step(hist)
  /\ UNCHANGED <<isInitialized, probe, tickerSubjects, candleSubjects,
                 subjects, timers, streams, now>>

\* the ticker subscription of the symbol holds a published value with a
\* positive price (recorded at the call of getTicker and getCurrentPrice)
HoldsPublished(symbol) ==
  /\ ToUpperCase(symbol) \in DOMAIN tickerSubjects
  /\ subjects[tickerSubjects[ToUpperCase(symbol)]].pubs > 0
  /\ GtZero(subjects[tickerSubjects[ToUpperCase(symbol)]].value.price)

\* getCurrentPrice is called: lines 91-105 run; it reads the mode flag
\* when the cache gives no price
GetCurrentPriceCall(symbol) ==
  /\ ret = NoCall
  /\ ret' = IF GetCurrentPriceFetches(symbol)
            THEN Awaiting("getCurrentPrice",
                          [symbol |-> symbol, held |-> HoldsPublished(symbol)])
            ELSE [type |-> "getCurrentPrice", symbol |-> symbol,
                  held |-> HoldsPublished(symbol), fetched |-> FALSE,
                  out |-> GetCurrentPriceLocal(symbol)]
  /\ hist' = [Step(hist) EXCEPT !.modes =
                IF CachedPriceHit(ToUpperCase(symbol)) THEN @
                ELSE @ \cup {isInitialized}]
  /\ UNCHANGED <<isInitialized, probe, tickerSubjects, candleSubjects,
                 subjects, timers, streams, now>>

\* the request of the suspended getCurrentPrice is answered
GetCurrentPriceReturns(reply) ==
  /\ IsAwaiting("getCurrentPrice")
  /\ Settles(reply)
  /\ ret' = [type |-> "getCurrentPrice", symbol |-> ret.args.symbol,
             held |-> ret.args.held, fetched |-> TRUE, reply |-> reply,
             out |-> GetCurrentPriceRemote(ret.args.symbol, reply)]
  /\ hist' = Step(hist)
  /\ UNCHANGED <<isInitialized, probe, tickerSubjects, candleSubjects,
                 subjects, timers, streams, now>>

\* getTicker is called: it sends its request, whatever the cache holds
GetTickerCall(symbol) ==
  /\ ret = NoCall
  /\ ret' = Awaiting("getTicker",
                     [symbol |-> symbol, held |-> HoldsPublished(symbol)])
  /\ hist' = Step(hist)
  /\ UNCHANGED <<isInitialized, probe, tickerSubjects, candleSubjects,
                 subjects, timers, streams, now>>

GetTickerReturns(reply) ==
  /\ IsAwaiting("getTicker")
  /\ Settles(reply)
  /\ ret' = [type |-> "getTicker", symbol |-> ret.args.symbol,
             held |-> ret.args.held, fetched |-> TRUE, reply |-> reply,
             out |-> GetTicker(ret.args.symbol, reply)]
  /\ hist' = Step(hist)
  /\ UNCHANGED <<isInitialized, probe, tickerSubjects, candleSubjects,
                 subjects, timers, streams, now>>

GetOrderBookCall(symbol) ==
  /\ ret = NoCall
  /\ ret' = Awaiting("getOrderBook", [symbol |-> symbol])
  /\ hist' = Step(hist)
  /\ UNCHANGED <<isInitialized, probe, tickerSubjects, candleSubjects,
                 subjects, timers, streams, now>>

GetOrderBookReturns(reply) ==
  /\ IsAwaiting("getOrderBook")
  /\ Settles(reply)
  /\ ret' = [type |-> "getOrderBook", symbol |-> ret.args.symbol,
             fetched |-> TRUE, reply |-> reply,
             out |-> GetOrderBook(ret.args.symbol, 20, reply)]
  /\ hist' = Step(hist)
  /\ UNCHANGED <<isInitialized, probe, tickerSubjects, candleSubjects,
                 subjects, timers, streams, now>>

GetSymbolsCall ==
  /\ ret = NoCall
  /\ ret' = Awaiting("getSymbols", [none |-> TRUE])
  /\ hist' = Step(hist)
  /\ UNCHANGED <<isInitialized, probe, tickerSubjects, candleSubjects,
                 subjects, timers, streams, now>>

GetSymbolsReturns(reply) ==
  /\ IsAwaiting("getSymbols")
  /\ Settles(reply)
  /\ ret' = [type |-> "getSymbols", fetched |-> TRUE, reply |-> reply,
             out |-> GetSymbols(reply)]
  /\ hist' = Step(hist)
  /\ UNCHANGED <<isInitialized, probe, tickerSubjects, candleSubjects,
                 subjects, timers, streams, now>>

\* the values Math.random() hands out, each in [0, 1)
RandomStreams ==
  { <<Num(500)>>,
    <<Num(0), Num(999), Num(250), Num(750), Num(500)>> }

\* getHistoricalData is called: it reads the mode flag (line 187) and
\* either runs the generator and returns, or sends the klines request
GetHistoricalDataCall(symbol, timeframe, limit, rand) ==
  /\ ret = NoCall
  /\ ret' = IF GetHistoricalDataFetches
            THEN Awaiting("getHistoricalData",
                          [symbol |-> symbol, timeframe |-> timeframe,
                           limit |-> limit])
            ELSE [type |-> "getHistoricalData", symbol |-> symbol,
                  timeframe |-> timeframe, limit |-> limit, fetched |-> FALSE,
                  out |-> GetHistoricalDataLocal(symbol, timeframe, limit, rand)]
  /\ hist' = [Step(hist) EXCEPT !.modes = @ \cup {isInitialized}]
  /\ UNCHANGED <<isInitialized, probe, tickerSubjects, candleSubjects,
                 subjects, timers, streams, now>>

\* the klines request of the suspended getHistoricalData is answered; the
\* generator, when it runs, draws its random values now
GetHistoricalDataReturns(reply, rand) ==
  /\ IsAwaiting("getHistoricalData")
  /\ Settles(reply)
  /\ ret' = [type |-> "getHistoricalData", symbol |-> ret.args.symbol,
             timeframe |-> ret.args.timeframe, limit |-> ret.args.limit,
             fetched |-> TRUE, reply |-> reply,
             out |-> GetHistoricalDataRemote(ret.args.symbol, ret.args.timeframe,
                                             ret.args.limit, reply, rand)]
  /\ hist' = Step(hist)
  /\ UNCHANGED <<isInitialized, probe, tickerSubjects, candleSubjects,
                 subjects, timers, streams, now>>

\* calculatePnL is called: its getCurrentPrice runs lines 91-105 and either
\* returns a price or sends its request; calculatePnL is suspended at
\* `await this.getCurrentPrice(symbol)` (line 409) in both cases
CalculatePnLCall(symbol, side, entryPrice, quantity) ==
  LET call == Awaiting("calculatePnL",
                       [symbol |-> symbol, side |-> side,
                        entryPrice |-> entryPrice, quantity |-> quantity])
  IN
  /\ ret = NoCall
  /\ ret' = IF GetCurrentPriceFetches(symbol)
            THEN call
            ELSE [type |-> "awaiting", call |-> "calculatePnL",
                  stage |-> "price", args |-> call.args, fetched |-> FALSE,
                  price |-> GetCurrentPriceLocal(symbol)]
  /\ hist' = [Step(hist) EXCEPT !.modes =
                IF CachedPriceHit(ToUpperCase(symbol)) THEN @
                ELSE @ \cup {isInitialized}]
  /\ UNCHANGED <<isInitialized, probe, tickerSubjects, candleSubjects,
                 subjects, timers, streams, now>>

\* the price request of the suspended calculatePnL is answered: its
\* getCurrentPrice returns, calculatePnL is still to resume
CalculatePnLPrice(reply) ==
  /\ IsAwaiting("calculatePnL")
  /\ Settles(reply)
  /\ ret' = [type |-> "awaiting", call |-> "calculatePnL", stage |-> "price",
             args |-> ret.args, fetched |-> TRUE,
             price |-> GetCurrentPriceRemote(ret.args.symbol, reply)]
  /\ hist' = Step(hist)
  /\ UNCHANGED <<isInitialized, probe, tickerSubjects, candleSubjects,
                 subjects, timers, streams, now>>

\* calculatePnL resumes with the price (lines 411-428) and returns
CalculatePnLReturns ==
  /\ IsAwaiting("calculatePnL")
  /\ ret.stage = "price"
  /\ ret' = [type |-> "calculatePnL", symbol |-> ret.args.symbol,
             side |-> ret.args.side, entryPrice |-> ret.args.entryPrice,
             quantity |-> ret.args.quantity, fetched |-> ret.fetched,
             price |-> ret.price,
             out |-> CalculatePnL(ret.price, ret.args.side,
                                  ret.args.entryPrice, ret.args.quantity)]
  /\ hist' = Step(hist)
  /\ UNCHANGED <<isInitialized, probe, tickerSubjects, candleSubjects,
                 subjects, timers, streams, now>>

(* ------------------------------------------------------------------ *)
(* Specification                                                      *)
(* ------------------------------------------------------------------ *)
\* the state the constructor leaves: the probe is issued, not answered
Init ==
  /\ isInitialized = FALSE
  /\ probe = "pending"
  /\ tickerSubjects = EmptyMap
  /\ candleSubjects = EmptyMap
  /\ subjects = <<>>
  /\ timers = <<>>
  /\ streams = <<>>
  /\ now = 0
  /\ ret = NoCall
  /\ hist = [everSubscribed |-> {}, published |-> {}, rounds |-> 0,
             modes |-> {}, probeFailed |-> FALSE,
             afterCleanup |-> FALSE]

\* the probe and the subscription manager
Next ==
  \/ \E reply \in PingReplies : InitializeConnection(reply)
  \/ \E symbol \in Symbols : SubscribeToTicker(symbol)
  \/ \E symbol \in CandleSymbols, interval \in Intervals :
       SubscribeToCandles(symbol, interval)
  \/ \E sid \in DOMAIN subjects : Attach(sid)
  \/ \E t \in DOMAIN timers : TimerFire(t)
  \/ \E t \in DOMAIN timers, reply \in RoundTickerReplies \cup RoundKlineReplies :
       RoundComplete(t, reply)
  \/ Cleanup

Spec == Init /\ [][Next]_vars

\* the accessors, called in every state the probe, the ticker
\* subscriptions, their refresh rounds and cleanup lead to, and
\* interleaved with them while suspended on their requests
NextCalls ==
  \/ \E reply \in PingReplies : InitializeConnection(reply)
  \/ \E symbol \in CallSymbols : SubscribeToTicker(symbol)
  \/ \E t \in DOMAIN timers : TimerFire(t)
  \/ \E t \in DOMAIN timers, reply \in CallRoundReplies :
       RoundComplete(t, reply)
  \/ Cleanup
  \/ \E symbol \in ReadSymbols : GetCurrentPriceCall(symbol)
  \/ \E symbol \in CallSymbols : GetTickerCall(symbol)
  \/ \E symbol \in CallSymbols : GetOrderBookCall(symbol)
  \/ GetSymbolsCall
  \/ FetchResolves
  \/ \E reply \in PriceReplies : GetCurrentPriceReturns(reply)
  \/ \E reply \in TickerReplies : GetTickerReturns(reply)
  \/ \E reply \in DepthReplies : GetOrderBookReturns(reply)
  \/ \E reply \in InfoReplies : GetSymbolsReturns(reply)

SpecCalls == Init /\ [][NextCalls]_vars

\* the state the constructor leaves, at one of the clock values
InitHistory ==
  /\ isInitialized = FALSE
  /\ probe = "pending"
  /\ tickerSubjects = EmptyMap
  /\ candleSubjects = EmptyMap
  /\ subjects = <<>>
  /\ timers = <<>>
  /\ streams = <<>>
  /\ now \in Nows
  /\ ret = NoCall
  /\ hist = [everSubscribed |-> {}, published |-> {}, rounds |-> 0,
             modes |-> {}, probeFailed |-> FALSE,
             afterCleanup |-> FALSE]

\* getHistoricalData, called before and after the probe
NextHistory ==
  \/ \E reply \in PingReplies : InitializeConnection(reply)
  \/ \E symbol \in HistorySymbols, timeframe \in Timeframes, limit \in Limits,
        rand \in RandomStreams :
       GetHistoricalDataCall(symbol, timeframe, limit, rand)
  \/ FetchResolves
  \/ \E reply \in HistoryReplies, rand \in RandomStreams :
       GetHistoricalDataReturns(reply, rand)

SpecHistory == InitHistory /\ [][NextHistory]_vars

\* the reads that depend on the mode flag and on the cached values:
\* getCurrentPrice, getHistoricalData and calculatePnL, called in every
\* state the probe, a ticker subscription, its rounds and cleanup lead to
NextReads ==
  \/ \E reply \in PingReplies : InitializeConnection(reply)
  \/ \E symbol \in CallSymbols : SubscribeToTicker(symbol)
  \/ \E t \in DOMAIN timers : TimerFire(t)
  \/ \E t \in DOMAIN timers, reply \in CallRoundReplies :
       RoundComplete(t, reply)
  \/ Cleanup
  \/ \E symbol \in ReadSymbols : GetCurrentPriceCall(symbol)
  \/ \E symbol \in CallSymbols :
       GetHistoricalDataCall(symbol, <<"1","h">>, 2, <<Num(500)>>)
  \/ \E symbol \in ReadSymbols, side \in Sides, position \in Positions :
       CalculatePnLCall(symbol, side, position[1], position[2])
  \/ FetchResolves
  \/ \E reply \in ReadPriceReplies : GetCurrentPriceReturns(reply)
  \/ \E reply \in {NetworkError, Reply(TRUE, JArray(<<Kline1>>))} :
       GetHistoricalDataReturns(reply, <<Num(500)>>)
  \/ \E reply \in ReadPriceReplies : CalculatePnLPrice(reply)
  \/ CalculatePnLReturns

SpecReads == Init /\ [][NextReads]_vars

\* the streams: several observers of one subject, across the probe,
\* cleanup and re-subscription
NextShared ==
  \/ \E reply \in PingReplies : InitializeConnection(reply)
  \/ \E symbol \in CallSymbols : SubscribeToTicker(symbol)
  \/ \E symbol \in CandleSymbols, interval \in Intervals :
       SubscribeToCandles(symbol, interval)
  \/ \E sid \in DOMAIN subjects : AttachWithin(sid, MaxSharedStreams)
  \/ \E t \in DOMAIN timers : TimerFire(t)
  \/ \E t \in DOMAIN timers, reply \in RoundTickerReplies \cup RoundKlineReplies :
       RoundComplete(t, reply)
  \/ Cleanup

SpecStreams == Init /\ [][NextShared]_vars

(* ------------------------------------------------------------------ *)
(* Properties                                                         *)
(* ------------------------------------------------------------------ *)
IsPlaceholderQuote(v) ==
  /\ v.price = Num(0)
  /\ v.change = Num(0)
  /\ v.changePercent = Num(0)
  /\ v.volume = Num(0)

\* the timers registered for a kind and key
TimersOf(kind, key) ==
  {t \in DOMAIN timers : timers[t].kind = kind /\ timers[t].key = key}

\* C1: at most one active polling timer exists for each ticker key and for
\* each candle key, whatever subscribe calls, timer firings and cleanup
\* calls were made.
C1_OneTimerPerKey ==
  \A t \in DOMAIN timers :
    Cardinality(TimersOf(timers[t].kind, timers[t].key)) <= 1

\* C2: in the state right after cleanup() both maps are empty and no polling
\* timer is active, so that no refresh round can start before a new subscribe.
C2_CleanupCancelsTimers ==
  hist.afterCleanup =>
    /\ tickerSubjects = EmptyMap
    /\ candleSubjects = EmptyMap
    /\ timers = <<>>

\* C3: refresh rounds of one timer never overlap: at most one round of a
\* timer is between its fetch and its publish.
C3_NoOverlappingRounds ==
  \A t \in DOMAIN timers : timers[t].inflight <= 1

\* C4: the step that ends a refresh round whose fetch raised changes no
\* subject (value and publish count), emits nothing to any stream, and
\* leaves every timer registered, the round's own timer included.
C4_FailedRoundSkipped ==
  [][\A t \in DOMAIN timers : \A reply \in RoundReplies(t) :
       (RoundFetch(t, reply).raised /\ RoundComplete(t, reply)) =>
         /\ subjects' = subjects
         /\ streams' = streams
         /\ DOMAIN timers' = DOMAIN timers
         /\ \A u \in DOMAIN timers :
              /\ timers'[u].subject = timers[u].subject
              /\ timers'[u].key = timers[u].key
              /\ timers'[u].kind = timers[u].kind]_vars

\* C4 witness: a round of a timer raised while its subject still held the
\* placeholder, an attached stream received nothing for that round, and a
\* later round of the same timer published.
C4_Witness ==
  \E t \in DOMAIN timers : \E i \in DOMAIN streams :
    /\ timers[t].kind = "ticker"
    /\ timers[t].failedAt = 0
    /\ subjects[timers[t].subject].pubs = 1
    /\ streams[i].subject = timers[t].subject
    /\ streams[i].pubsAtAttach = 0
    /\ Len(streams[i].received) = 2
    /\ IsPlaceholderQuote(streams[i].received[1])
    /\ ~IsPlaceholderQuote(streams[i].received[2])

\* C5: subscribeToTicker called right after cleanup(), for a symbol whose
\* key had a published value, registers a subject that did not exist
\* before and whose value is the zero-valued placeholder.
C5_FreshAfterCleanup ==
  [][\A symbol \in Symbols :
       (/\ hist.afterCleanup
        /\ ToUpperCase(symbol) \in hist.published
        /\ SubscribeToTicker(symbol)) =>
         LET key == ToUpperCase(symbol) IN
         /\ key \in DOMAIN tickerSubjects'
         /\ tickerSubjects'[key] \notin DOMAIN subjects
         /\ IsPlaceholderQuote(subjects'[tickerSubjects'[key]].value)]_vars

\* C5 witness: a key that had a published value is registered again, with
\* a subject created by subscribeToTicker that nothing was published to,
\* while the subject it had before cleanup() still holds a published value.
C5_Witness ==
  \E key \in hist.published :
    /\ key \in DOMAIN tickerSubjects
    /\ subjects[tickerSubjects[key]].origin = "subscribe"
    /\ subjects[tickerSubjects[key]].pubs = 0
    /\ IsPlaceholderQuote(subjects[tickerSubjects[key]].value)
    /\ \E old \in DOMAIN subjects :
         /\ subjects[old].key = key
         /\ subjects[old].pubs > 0
         /\ ~IsPlaceholderQuote(subjects[old].value)

\* a stream of C6: attached to the ticker subject returned by the first
\* subscribeToTicker call ever made for its key, before anything was
\* published to it
FirstStream(i) ==
  /\ subjects[streams[i].subject].kind = "ticker"
  /\ subjects[streams[i].subject].firstEver
  /\ streams[i].pubsAtAttach = 0

\* C6 as stated: in either mode, the first value of a stream returned for a
\* symbol nobody subscribed to before, attached before any refresh round
\* completed, is the zero-valued placeholder.
C6_FirstValuePlaceholder ==
  \A i \in DOMAIN streams :
    FirstStream(i) => IsPlaceholderQuote(streams[i].received[1])

\* C6 amended: the same, for a symbol whose key does not hold a subject
\* registered by the FALLBACK seeding.
C6_FirstValuePlaceholderUnlessSeeded ==
  \A i \in DOMAIN streams :
    (FirstStream(i) /\ subjects[streams[i].subject].origin # "seed") =>
      IsPlaceholderQuote(streams[i].received[1])

\* C6 witness: in FALLBACK mode, a stream of a symbol that is not seeded
\* and was never subscribed to before has received its first value.
C6_Witness ==
  \E i \in DOMAIN streams :
    /\ FirstStream(i)
    /\ subjects[streams[i].subject].origin = "subscribe"
    /\ subjects[streams[i].subject].key = ToUpperCase(XrpUsdt)
    /\ probe = "done"
    /\ ~isInitialized
    /\ Len(streams[i].received) = 1

\* C7 as stated: the mode is fixed for the process lifetime, so that any
\* two accessor calls read the same value of the mode flag.
C7_ModeSameForAllCalls ==
  Cardinality(hist.modes) <= 1

\* C7 amended: the mode flag is written at most once, by the completion of
\* the startup probe and only to LIVE on a successful reply; once the
\* probe has completed the flag never changes (so any two accessor calls
\* made after it read the same mode, and there is no second probe), and
\* after a failed probe the mode is not LIVE.
C7_ModeSetOnceByProbe ==
  [][/\ (isInitialized' # isInitialized) =>
          (/\ probe = "pending"
           /\ probe' = "done"
           /\ isInitialized'
           /\ ~hist'.probeFailed)
     /\ (probe = "done") =>
          (probe' = "done" /\ isInitialized' = isInitialized)
     /\ (probe' = "done" /\ hist'.probeFailed) => ~isInitialized']_vars

\* C7 witness: the probe succeeded and an accessor call made after it read
\* the mode LIVE and went to the remote service, while an earlier call had
\* read the flag before the probe completed.
C7_Witness ==
  /\ probe = "done"
  /\ isInitialized
  /\ ~hist.probeFailed
  /\ ret.type = "getCurrentPrice"
  /\ ret.fetched
  /\ hist.modes = {FALSE, TRUE}

\* the seeded symbol of entry d holds its static quote, with a positive price
SeedHolds(d) ==
  /\ d.symbol \in DOMAIN tickerSubjects
  /\ subjects[tickerSubjects[d.symbol]].value.price = d.price
  /\ subjects[tickerSubjects[d.symbol]].value.change = d.change
  /\ subjects[tickerSubjects[d.symbol]].value.changePercent = d.changePercent
  /\ subjects[tickerSubjects[d.symbol]].value.volume = Whole(SeedVolume)
  /\ GtZero(subjects[tickerSubjects[d.symbol]].value.price)

AllSeedsHold == \A i \in DOMAIN FallbackData : SeedHolds(FallbackData[i])

\* C8: when the probe completes with a transport failure or a non-success
\* status, every seeded symbol holds its static quote in the state the
\* probe leaves, whatever subscribe calls were made before.
C8_SeedsAfterFallbackProbe ==
  [][(probe = "pending" /\ probe' = "done" /\ hist'.probeFailed) =>
       AllSeedsHold']_vars

\* C9: getCurrentPrice never raises and returns a positive price, for every
\* symbol, mode, cache state and reply; for a symbol outside the fallback
\* table and with no usable cached value, when no request is made, it
\* returns the default price.
C9_PricePositiveNeverRaises ==
  ret.type = "getCurrentPrice" =>
    /\ ~ret.out.raised
    /\ GtZero(ret.out.value)
    /\ (/\ ToUpperCase(ret.symbol) \notin DOMAIN FallbackPrices
        /\ ~CachedPriceHit(ToUpperCase(ret.symbol))
        /\ ~ret.fetched) => ret.out.value = Whole(DefaultPrice)

\* the fields of the reply an accessor reads
RequiredFields(type) ==
  CASE type = "getTicker" ->
         {"symbol", "lastPrice", "priceChange", "priceChangePercent", "volume"}
    [] type = "getOrderBook" -> {"bids", "asks"}
    [] type = "getSymbols" -> {"symbols"}

\* the remote call failed: a transport failure, a non-success status, a
\* body that is not JSON or lacks the fields (malformed), or an embedded
\* error code
RemoteCallFailed(type, reply) ==
  \/ ~reply.net
  \/ ~reply.ok
  \/ ~reply.json
  \/ HasField(reply.body, "code")
  \/ \E f \in RequiredFields(type) : ~HasField(reply.body, f)

\* C10: getTicker, getOrderBook and getSymbols raise whenever the remote
\* call failed; none of them returns a value then.
C10_FailuresSurface ==
  (/\ ret.type \in {"getTicker", "getOrderBook", "getSymbols"}
   /\ RemoteCallFailed(ret.type, ret.reply)) => ret.out.raised

\* the candles are ordered oldest-first: timestamps increase
OldestFirst(data) ==
  \A i \in 1..(Len(data) - 1) : Gt(data[i + 1].timestamp, data[i].timestamp)

\* the kline request failed: a transport failure, a non-success status, a
\* body that is not JSON or not a sequence, or an embedded error code
KlineFetchFailed(reply) ==
  \/ ~reply.net
  \/ ~reply.ok
  \/ ~reply.json
  \/ reply.body.t # "array"

KlineFetchEmpty(reply) ==
  reply.net /\ reply.json /\ reply.body.t = "array" /\ Len(reply.body.a) = 0

\* C11: getHistoricalData never raises; when no request is made (FALLBACK),
\* and in LIVE mode when the kline request failed or returned no candle, it
\* returns the generator's output: exactly `limit` candles, oldest-first.
C11_HistoryFallsBackToGenerator ==
  ret.type = "getHistoricalData" =>
    /\ ~ret.out.raised
    /\ (~ret.fetched \/ KlineFetchFailed(ret.reply) \/ KlineFetchEmpty(ret.reply)) =>
         /\ ret.out.generated
         /\ Len(ret.out.value) = ret.limit
         /\ OldestFirst(ret.out.value)

\* the OHLC relation of one candle
OhlcHolds(c) ==
  /\ ~c.open.nan /\ ~c.high.nan /\ ~c.low.nan /\ ~c.close.nan
  /\ c.low.v <= c.open.v /\ c.low.v <= c.close.v
  /\ c.high.v >= c.open.v /\ c.high.v >= c.close.v

\* the millisecond duration the timeframe string stands for: the table's
\* value for a recognized string, one hour for any other
TimeframeDuration(timeframe) ==
  IF timeframe \in DOMAIN TimeframeMap THEN TimeframeMap[timeframe] ELSE HourMs

\* timestamps increase by the same step from candle to candle
ConstantStep(data, step) ==
  \A i \in 1..(Len(data) - 1) :
    /\ ~data[i].timestamp.nan
    /\ ~data[i + 1].timestamp.nan
    /\ data[i + 1].timestamp.v - data[i].timestamp.v = step

\* C12: every candle sequence the generator produced, for any symbol,
\* timeframe string, count and random values, satisfies the OHLC relation
\* in every candle and has timestamps that increase by exactly the
\* duration of the timeframe (one hour for an unrecognized string).
C12_GeneratedCandlesWellFormed ==
  (ret.type = "getHistoricalData" /\ ret.out.generated) =>
    /\ \A i \in DOMAIN ret.out.value : OhlcHolds(ret.out.value[i])
    /\ ConstantStep(ret.out.value, TimeframeDuration(ret.timeframe))

\* C13: in FALLBACK mode, getHistoricalData("UNKNOWNSYM", "1h", 50) returns
\* 50 candles, oldest-first, whose last timestamp is the most recent hour
\* boundary not later than the generation time, and whose first open is
\* the default base price 100.
C13_UnknownSymbolFiftyHourly ==
  (/\ ret.type = "getHistoricalData"
   /\ ~isInitialized
   /\ ret.symbol = UNKNOWNSYM
   /\ ret.timeframe = <<"1","h">>
   /\ ret.limit = 50) =>
    LET data == ret.out.value
        last == data[Len(data)].timestamp
    IN /\ Len(data) = 50
       /\ OldestFirst(data)
       /\ ~last.nan
       /\ last.v % HourMs = 0
       /\ last.v <= now
       /\ now - last.v < HourMs
       /\ data[1].open = Whole(DefaultPrice)

\* stream i is attached to a subscription of the key of timer t
SameKey(i, t) ==
  /\ subjects[streams[i].subject].kind = timers[t].kind
  /\ subjects[streams[i].subject].key = timers[t].key

\* stream i is attached to the subject timer t was created with
SameSubscription(i, t) == streams[i].subject = timers[t].subject

\* In every step: a stream that is attached in the step has received the
\* current value of its subject and nothing else; a stream that existed
\* receives, when the step completes a round that publishes and Feeds
\* relates the stream to the round's timer, exactly the published value
\* appended to what it had, and otherwise nothing.
StreamsFollow(Feeds(_, _)) ==
  /\ \A i \in DOMAIN streams' \ DOMAIN streams :
       streams'[i].received = <<subjects[streams'[i].subject].value>>
  /\ \A i \in DOMAIN streams :
       /\ i \in DOMAIN streams'
       /\ \A t \in DOMAIN timers : \A reply \in RoundReplies(t) :
            RoundComplete(t, reply) =>
              streams'[i].received =
                IF ~RoundFetch(t, reply).raised /\ Feeds(i, t)
                THEN Append(streams[i].received, RoundFetch(t, reply).value)
                ELSE streams[i].received
       /\ (~\E t \in DOMAIN timers : \E reply \in RoundReplies(t) :
              RoundComplete(t, reply)) =>
            streams'[i].received = streams[i].received

\* C14 as stated: a stream first emits the current value of its
\* subscription and then every value published for its key after the
\* attachment, once each and in publish order, so that all streams of one
\* key receive the same values from their attachment on.
C14_StreamsFollowKey == [][StreamsFollow(SameKey)]_vars

\* C14 amended: the same, for the values published to the subject the
\* stream is attached to; streams of one subject receive the same values
\* from their attachment on, and a stream of a subject that cleanup()
\* dropped from the map receives the values its own timer still publishes.
C14_StreamsFollowSubscription == [][StreamsFollow(SameSubscription)]_vars

\* C14 witness: two streams of one ticker subject, the first attached
\* before anything was published and the second after one value; two
\* values were published, and the second stream holds what the first
\* received from the second stream's attachment on.
C14_Witness ==
  /\ Len(streams) = 2
  /\ streams[1].subject = streams[2].subject
  /\ subjects[streams[1].subject].kind = "ticker"
  /\ subjects[streams[1].subject].pubs = 2
  /\ streams[1].pubsAtAttach = 0
  /\ streams[2].pubsAtAttach = 1
  /\ Len(streams[1].received) = 3
  /\ streams[2].received = SubSeq(streams[1].received, 2, 3)
  /\ streams[1].received[2] # streams[1].received[3]

\* the timers whose rounds publish to subject sid
TimersOfSubject(sid) == {t \in DOMAIN timers : timers[t].subject = sid}

\* C16: every subject registered in the ticker map or in the candle map
\* has exactly one active polling timer that refreshes it.
C16_RegisteredKeyHasOneTimer ==
  /\ \A key \in DOMAIN tickerSubjects :
       Cardinality(TimersOfSubject(tickerSubjects[key])) = 1
  /\ \A key \in DOMAIN candleSubjects :
       Cardinality(TimersOfSubject(candleSubjects[key])) = 1

\* C19: the value of a subject changes, and a stream attached to it
\* receives a value, only in a step that completes a round of a timer
\* created with that subject; no timer ever changes the subject it
\* publishes to.  So a round of a subscription created before cleanup()
\* never touches the subscription created for the same key after it.
C19_OnlyOwnTimerWrites ==
  [][/\ \A sid \in DOMAIN subjects :
          (\/ subjects'[sid].value # subjects[sid].value
           \/ subjects'[sid].pubs # subjects[sid].pubs
           \/ \E i \in DOMAIN streams :
                streams[i].subject = sid /\ streams'[i] # streams[i]) =>
            \E t \in TimersOfSubject(sid) : \E reply \in RoundReplies(t) :
              RoundComplete(t, reply)
     /\ \A t \in DOMAIN timers :
          t \in DOMAIN timers' /\ timers'[t].subject = timers[t].subject]_vars

\* C19 witness: a key was subscribed, cleaned up and subscribed again; a
\* stream was attached to the new subject, then one to the old subject,
\* and after that a round of the old timer published: the old stream
\* received the value, the new subject still holds the placeholder and
\* the new stream received nothing but it.
C19_Witness ==
  /\ Len(streams) = 2
  /\ LET new == streams[1].subject
         old == streams[2].subject
     IN /\ old < new
        /\ subjects[old].kind = "ticker"
        /\ subjects[old].key = subjects[new].key
        /\ subjects[new].key \in DOMAIN tickerSubjects
        /\ tickerSubjects[subjects[new].key] = new
        /\ subjects[old].pubs = streams[2].pubsAtAttach + 1
        /\ Len(streams[2].received) = 2
        /\ subjects[new].pubs = 0
        /\ IsPlaceholderQuote(subjects[new].value)
        /\ Len(streams[1].received) = 1
        /\ TimersOfSubject(old) # {}
        /\ TimersOfSubject(new) # {}

\* C20: the step in which the probe completes keeps, for every key the
\* ticker map held, the same subject with the same value, keeps every
\* timer and emits nothing to any stream.
C20_SeedingKeepsSubscriptions ==
  [][(probe = "pending" /\ probe' = "done") =>
       /\ \A key \in DOMAIN tickerSubjects :
            /\ key \in DOMAIN tickerSubjects'
            /\ tickerSubjects'[key] = tickerSubjects[key]
       /\ \A sid \in DOMAIN subjects : subjects'[sid] = subjects[sid]
       /\ timers' = timers
       /\ streams' = streams
       /\ candleSubjects' = candleSubjects]_vars

\* C20 witness: the probe failed after a seeded symbol had been
\* subscribed: its key maps to the subject the subscribe call created
\* (older than the seeds of the other symbols), which holds the
\* placeholder and has its timer, and a stream of it received nothing
\* but the placeholder.
C20_Witness ==
  /\ probe = "done"
  /\ hist.probeFailed
  /\ BTCUSDT \in DOMAIN tickerSubjects
  /\ ETHUSDT \in DOMAIN tickerSubjects
  /\ subjects[tickerSubjects[BTCUSDT]].origin = "subscribe"
  /\ subjects[tickerSubjects[ETHUSDT]].origin = "seed"
  /\ tickerSubjects[BTCUSDT] < tickerSubjects[ETHUSDT]
  /\ IsPlaceholderQuote(subjects[tickerSubjects[BTCUSDT]].value)
  /\ TimersOfSubject(tickerSubjects[BTCUSDT]) # {}
  /\ \E i \in DOMAIN streams :
       /\ streams[i].subject = tickerSubjects[BTCUSDT]
       /\ Len(streams[i].received) = 1

\* C15: calculatePnL returns the price getCurrentPrice returned as
\* currentPrice, pnl = (current - entry) * qty for LONG and
\* (entry - current) * qty for SHORT, and pnlPercent = pnl / (entry * qty)
\* * 100; LONG 100 x 2 at 110 and SHORT 100 x 2 at 90 both give pnl 20 and
\* pnlPercent 10.
C15_PnLFormula ==
  ret.type = "calculatePnL" =>
    LET current == ret.price.value
        entry == ret.entryPrice
        qty == ret.quantity
    IN /\ ~ret.price.raised
       /\ ~ret.out.raised
       /\ ret.out.value.currentPrice = current
       /\ ret.side = "LONG" => ret.out.value.pnl = Mul(Sub(current, entry), qty)
       /\ ret.side = "SHORT" => ret.out.value.pnl = Mul(Sub(entry, current), qty)
       /\ ret.out.value.pnlPercent =
            Mul(Div(ret.out.value.pnl, Mul(entry, qty)), Whole(100))
       /\ (/\ ret.side = "LONG" /\ entry = Whole(100) /\ qty = Whole(2)
           /\ current = Whole(110)) =>
            ret.out.value.pnl = Whole(20) /\ ret.out.value.pnlPercent = Whole(10)
       /\ (/\ ret.side = "SHORT" /\ entry = Whole(100) /\ qty = Whole(2)
           /\ current = Whole(90)) =>
            ret.out.value.pnl = Whole(20) /\ ret.out.value.pnlPercent = Whole(10)

\* C15 witness: the SHORT example, with the price 90 fetched in LIVE mode.
C15_Witness ==
  /\ ret.type = "calculatePnL"
  /\ ret.side = "SHORT"
  /\ ret.entryPrice = Whole(100)
  /\ ret.quantity = Whole(2)
  /\ ret.fetched
  /\ ret.price.value = Whole(90)
  /\ ret.out.value.pnl = Whole(20)
  /\ ret.out.value.pnlPercent = Whole(10)
  /\ ret.out.value.currentPrice = Whole(90)

\* C17: a read called while the subscription of its key holds a published
\* value issues no remote request and returns that value.
C17_ReadsConsultCache ==
  (ret.type \in {"getCurrentPrice", "getTicker"} /\ ret.held) =>
    LET cached == subjects[tickerSubjects[ToUpperCase(ret.symbol)]].value IN
    /\ ~ret.fetched
    /\ ret.type = "getTicker" => ret.out = Return(cached)
    /\ ret.type = "getCurrentPrice" => ret.out = Return(cached.price)

\* the probe has completed successfully and set the mode LIVE
ProbeSucceeded == probe = "done" /\ ~hist.probeFailed /\ isInitialized

\* C18: getCurrentPrice and getHistoricalData issue a remote request only
\* when the probe has completed successfully: a call of either that is
\* suspended on its request, or has returned from one, is in a state
\* after the probe's success; while the probe is pending and after it
\* failed they issue none and answer from the cached ticker, the fallback
\* price table or the generator.
C18_RemoteOnlyAfterProbeSuccess ==
  /\ (ret.type = "awaiting" /\ ret.call \in {"getCurrentPrice", "getHistoricalData"})
       => ProbeSucceeded
  /\ ret.type \in {"getCurrentPrice", "getHistoricalData"} =>
       /\ ret.fetched => ProbeSucceeded
       /\ (probe = "pending" \/ hist.probeFailed) =>
            /\ ~ret.fetched
            /\ ret.type = "getHistoricalData" => ret.out.generated
            /\ ret.type = "getCurrentPrice" =>
                 \/ ret.out = Return(FallbackPrice(ToUpperCase(ret.symbol)))
                 \/ /\ CachedPriceHit(ToUpperCase(ret.symbol))
                    /\ ret.out = Return(subjects[tickerSubjects[ToUpperCase(ret.symbol)]].value.price)

\* C18 witness: after a failed probe getHistoricalData was called; it
\* issued no request and returned the two generated candles.
C18_Witness ==
  /\ probe = "done"
  /\ hist.probeFailed
  /\ ret.type = "getHistoricalData"
  /\ ~ret.fetched
  /\ ret.out.generated
  /\ Len(ret.out.value) = 2

====
